---- MODULE Spec2Model ----
(***************************************************************************)
(* ML/ml-tutorial.ipynb: the notebook's code cells run top to bottom in    *)
(* one kernel.  A cell is a list of evaluation steps; a step resolves its  *)
(* names in order (NameError on the first unbound one), then applies its   *)
(* data operation (which may raise), then binds its targets.  A failing    *)
(* cell keeps what its earlier steps bound; the kernel survives and the    *)
(* next cell can be run.                                                   *)
(*                                                                         *)
(* Environment (fixed during a run, chosen by Init):                       *)
(*   fs   the *.nii.gz files under data/mri, as [patient, mod] records;    *)
(*        a patient's number stands for the lexicographic rank of its      *)
(*        directory path                                                   *)
(*   vol  the voxel values stored in the image files (flattened)           *)
(*   csv  the rows of data/radiomics.csv                                   *)
(* Array shapes (155 x 240 x 240) and plotting are not modelled.           *)
(***************************************************************************)
EXTENDS Integers, Sequences, FiniteSets, TLC

VARIABLES fs, vol, csv, pc, ns, errors, unbound, database, lastCall, data, split

vars == <<fs, vol, csv, pc, ns, errors, unbound, database, lastCall, data, split>>

env == <<fs, vol, csv>>

(* ------------------------------ bounds -------------------------------- *)

NPatients == 2
NVox == 3
MaxVal == 2
MaxThreshold == 1
NTablePatients == 2
NSplitPatients == 4

(* ------------------------- program constants -------------------------- *)

IDX == 10
DefaultThreshold == 0
NCells == 19
Done == NCells + 1

Modalities == {"t1", "t2", "t1ce", "flair", "seg"}

Columns == {"T1", "T2", "T1ce", "FLAIR", "Seg"}

ColumnSuffix == [c \in Columns |->
    CASE c = "T1" -> "t1" [] c = "T2" -> "t2" [] c = "T1ce" -> "t1ce"
      [] c = "FLAIR" -> "flair" [] c = "Seg" -> "seg"]

Builtins == {"print", "sorted", "range", "enumerate", "display", "int"}

NoValue == [kind |-> "unbound"]

(* ------------------------- names and steps ---------------------------- *)

St(reads, binds) == [reads |-> reads, binds |-> binds]

RECURSIVE FirstUnbound(_, _)
FirstUnbound(reads, names) ==
    IF reads = <<>> THEN ""
    ELSE IF Head(reads) \notin names \cup Builtins THEN Head(reads)
    ELSE FirstUnbound(Tail(reads), names)

Range(s) == {s[i] : i \in DOMAIN s}

(* Runs the steps for their names only: the namespace after the last step  *)
(* that completed, the index of the step that raised NameError (Len + 1    *)
(* when none did) and the name it could not resolve.                       *)
RECURSIVE ExecNames(_, _, _)
ExecNames(stmts, names, k) ==
    IF k > Len(stmts) THEN [ns |-> names, at |-> k, exc |-> "", name |-> ""]
    ELSE LET u == FirstUnbound(stmts[k].reads, names)
         IN  IF u # ""
             THEN [ns |-> names, at |-> k, exc |-> "NameError", name |-> u]
             ELSE ExecNames(stmts, names \cup stmts[k].binds, k + 1)

(* The same run when the data operation of step dAt raises dExc (dAt = 0:  *)
(* no data operation raises).  The names of a step are resolved before its *)
(* operation is applied, so the NameError wins unless it comes later.      *)
Outcome(stmts, names, dAt, dExc) ==
    LET r == ExecNames(stmts, names, 1)
    IN  IF dAt # 0 /\ dAt < r.at
        THEN [ns |-> ExecNames(SubSeq(stmts, 1, dAt - 1), names, 1).ns,
              at |-> dAt, exc |-> dExc, name |-> ""]
        ELSE r

Failed(o) == o.exc # ""

(* Step k of the cell ran to its end (its targets are bound).              *)
Ran(o, k) == o.at > k

Log(cell, o) ==
    IF Failed(o)
    THEN Append(errors, [cell |-> cell, exc |-> o.exc, name |-> o.name])
    ELSE errors

(* The names a cell reads that neither an earlier cell nor an earlier step *)
(* of the cell has bound.                                                   *)
RECURSIVE StaticUnbound(_, _, _)
StaticUnbound(stmts, names, k) ==
    IF k > Len(stmts) THEN {}
    ELSE (Range(stmts[k].reads) \ (names \cup Builtins))
         \cup StaticUnbound(stmts, names \cup stmts[k].binds, k + 1)

(* ------------------------------ cell 1 -------------------------------- *)

(* The setup cell without its "import seaborn as sns".                     *)
SetupStmtsNoSeaborn == <<
    St(<<>>, {"glob"}), St(<<>>, {"pd"}),
    St(<<>>, {"sitk"}), St(<<>>, {"plt"}), St(<<>>, {"featureextractor"}) >>

SetupStmts == <<
    St(<<>>, {"glob"}), St(<<>>, {"pd"}), St(<<>>, {"sns"}),
    St(<<>>, {"sitk"}), St(<<>>, {"plt"}), St(<<>>, {"featureextractor"}) >>

(* ------------------------------ cell 2 -------------------------------- *)

DatabaseStmts == <<
    St(<<"sorted", "glob">>, {"t1_file_list"}),
    St(<<"sorted", "glob">>, {"t2_file_list"}),
    St(<<"sorted", "glob">>, {"t1ce_file_list"}),
    St(<<"sorted", "glob">>, {"flair_file_list"}),
    St(<<"sorted", "glob">>, {"seg_file_list"}),
    St(<<"pd", "t1_file_list", "t2_file_list", "t1ce_file_list",
         "flair_file_list", "seg_file_list">>, {"database"}),
    St(<<"database">>, {}) >>

(* glob.glob('data/mri/**/**/*_<mod>.nii.gz'): the matching files, in no   *)
(* particular order.                                                       *)
glob(files, mod) == {f \in files : f.mod = mod}

(* String order of two paths of one list: the directory part decides. *)
PathLess(a, b) == a.patient < b.patient

RECURSIVE sorted(_)
sorted(S) ==
    IF S = {} THEN <<>>
    ELSE LET m == CHOOSE x \in S : \A y \in S : y = x \/ PathLess(x, y)
         IN  <<m>> \o sorted(S \ {m})

file_list(files, c) == sorted(glob(files, ColumnSuffix[c]))

(* A frame built by zipping the lists: as long as the shortest, no error.  *)
DataFrameTruncating(lists) ==
    LET n == CHOOSE k \in {Len(lists[c]) : c \in DOMAIN lists} :
                 \A d \in DOMAIN lists : k <= Len(lists[d])
    IN  [kind |-> "frame",
         rows |-> [i \in 1..n |-> [c \in DOMAIN lists |-> lists[c][i]]]]

(* pd.DataFrame(dict of lists): one row per position; ValueError when the  *)
(* lists are not all of one length.                                        *)
DataFrame(lists) ==
    IF \A c, d \in DOMAIN lists : Len(lists[c]) = Len(lists[d])
    THEN [kind |-> "frame",
          rows |-> [i \in 1..Len(lists["T1"]) |->
                       [c \in DOMAIN lists |-> lists[c][i]]]]
    ELSE [kind |-> "ValueError"]

HasRow(db, idx) == db.kind = "frame" /\ idx + 1 <= Len(db.rows)

(* database.at[idx, col] on the default RangeIndex 0..n-1.                 *)
DatabaseAt(db, idx, col) == db.rows[idx + 1][col]

KeyErrorAt(db, k) == IF db.kind = "frame" /\ ~HasRow(db, IDX) THEN k ELSE 0

(* ---------------------------- cells 3 to 7 ---------------------------- *)

LoadImageStmts == <<
    St(<<>>, {"IDX"}),
    St(<<"sitk", "database", "IDX">>, {"img_sitk"}),
    St(<<"sitk", "img_sitk">>, {"img_np"}),
    St(<<"sitk", "database", "IDX">>, {"seg_sitk"}),
    St(<<"sitk", "seg_sitk">>, {"seg_np"}),
    St(<<"print", "img_np">>, {}),
    St(<<"print", "seg_np">>, {}) >>

ShowSliceStmts == <<
    St(<<>>, {"SLIDE"}),
    St(<<"plt">>, {}),
    St(<<"plt", "img_np", "SLIDE">>, {}),
    St(<<"plt", "seg_np", "SLIDE">>, {}),
    St(<<"plt">>, {}),
    St(<<"plt">>, {}) >>

ShowSlicesStmts == <<
    St(<<"plt">>, {"fig", "axes"}),
    St(<<"range", "img_np">>, {"i"}),
    St(<<"axes", "i">>, {}),
    St(<<"axes", "i", "img_np", "i">>, {}),
    St(<<"axes", "i", "seg_np", "i">>, {}),
    St(<<"axes", "i">>, {}),
    St(<<"plt">>, {}),
    St(<<"plt">>, {}) >>

LoadModalitiesStmts == <<
    St(<<"sitk", "sitk", "database", "IDX">>, {"t1_np"}),
    St(<<"sitk", "sitk", "database", "IDX">>, {"t2_np"}),
    St(<<"sitk", "sitk", "database", "IDX">>, {"t1ce_np"}),
    St(<<"sitk", "sitk", "database", "IDX">>, {"flair_np"}),
    St(<<"sitk", "sitk", "database", "IDX">>, {"seg_np"}),
    St(<<"t1_np", "t2_np", "t1ce_np", "flair_np", "seg_np">>, {"all_images"}),
    St(<<"plt">>, {"fig", "axes"}),
    St(<<"enumerate", "all_images">>, {"i", "k", "img"}),
    St(<<"i">>, {"colormap"}),
    St(<<"axes", "i", "img", "SLIDE", "colormap">>, {}),
    St(<<"axes", "i", "k">>, {}),
    St(<<"axes", "i">>, {}),
    St(<<"plt">>, {}) >>

HistogramStmts == <<
    St(<<"plt", "t1_np", "t2_np", "t1ce_np", "flair_np">>, {}),
    St(<<"plt">>, {}), St(<<"plt">>, {}), St(<<"plt">>, {}),
    St(<<"plt">>, {}), St(<<"plt">>, {}), St(<<"plt">>, {}) >>

(* ------------------------- cells 8 and 9 ------------------------------ *)

DefineStmts == << St(<<>>, {"load_img_norm"}) >>

(* The names the body of load_img_norm looks up when it is called: it      *)
(* assigns nothing, so both are globals.                                   *)
LoadImgNormReads == <<"normalized_sitk", "normalized_np">>

(* A call load_img_norm(image_dir, threshold) in a kernel whose globals    *)
(* are `names`.                                                            *)
load_img_norm(image_dir, threshold, names) ==
    LET u == FirstUnbound(LoadImgNormReads, names)
    IN  IF u # ""
        THEN [kind |-> "raise", exc |-> "NameError", name |-> u]
        ELSE [kind |-> "return",
              value |-> <<[global |-> LoadImgNormReads[1]],
                          [global |-> LoadImgNormReads[2]]>>]

CallRecord(image_dir, threshold, names) ==
    [kind |-> "call", image_dir |-> image_dir, threshold |-> threshold,
     result |-> load_img_norm(image_dir, threshold, names)]

(* The four calls of the histogram cell, in the order the list is built.   *)
HistColumns == <<"T1", "T2", "T1ce", "FLAIR">>

NormalizedHistogramStmts == <<
    St(<<>>, {"IDX"}),
    St(<<"plt", "load_img_norm", "database", "IDX">>, {}), St(LoadImgNormReads, {}),
    St(<<"load_img_norm", "database", "IDX">>, {}), St(LoadImgNormReads, {}),
    St(<<"load_img_norm", "database", "IDX">>, {}), St(LoadImgNormReads, {}),
    St(<<"load_img_norm", "database", "IDX">>, {}), St(LoadImgNormReads, {}),
    St(<<"plt">>, {}), St(<<"plt">>, {}), St(<<"plt">>, {}),
    St(<<"plt">>, {}), St(<<"plt">>, {}), St(<<"plt">>, {}) >>

(* ------------------------- cells 10 to 13 ----------------------------- *)

ExtractStmts == << St(<<"print", "pd", "result">>, {}) >>

ReadCsvStmts == << St(<<"pd">>, {"data"}), St(<<"display", "data">>, {}) >>

PairplotStmts == <<
    St(<<"data", "data">>, {"d"}), St(<<"sns", "d">>, {}),
    St(<<"plt">>, {}), St(<<"plt">>, {}) >>

HeatmapStmts == <<
    St(<<"data", "data">>, {"d"}), St(<<"sns", "d">>, {}), St(<<"plt">>, {}) >>

(* ------------------------------ actions ------------------------------- *)

Finish(cell, stmts, o) ==
    /\ pc' = cell + 1
    /\ ns' = o.ns
    /\ errors' = Log(cell, o)
    /\ unbound' = unbound \cup StaticUnbound(stmts, ns, 1)

Setup ==
    /\ pc = 1
    /\ Finish(1, SetupStmts, Outcome(SetupStmts, ns, 0, ""))
    /\ UNCHANGED <<env, database, lastCall, data, split>>

BuildDatabase ==
    /\ pc = 2
    /\ LET df == DataFrame([c \in Columns |-> file_list(fs, c)])
           o == Outcome(DatabaseStmts, ns,
                        IF df.kind = "ValueError" THEN 6 ELSE 0, "ValueError")
       IN  /\ Finish(2, DatabaseStmts, o)
           /\ database' = IF Ran(o, 6) THEN df ELSE database
    /\ UNCHANGED <<env, lastCall, data, split>>

LoadImage ==
    /\ pc = 3
    /\ Finish(3, LoadImageStmts,
              Outcome(LoadImageStmts, ns, KeyErrorAt(database, 2), "KeyError"))
    /\ UNCHANGED <<env, database, lastCall, data, split>>

ShowSlice ==
    /\ pc = 4
    /\ Finish(4, ShowSliceStmts, Outcome(ShowSliceStmts, ns, 0, ""))
    /\ UNCHANGED <<env, database, lastCall, data, split>>

ShowSlices ==
    /\ pc = 5
    /\ Finish(5, ShowSlicesStmts, Outcome(ShowSlicesStmts, ns, 0, ""))
    /\ UNCHANGED <<env, database, lastCall, data, split>>

LoadModalities ==
    /\ pc = 6
    /\ Finish(6, LoadModalitiesStmts,
              Outcome(LoadModalitiesStmts, ns, KeyErrorAt(database, 1), "KeyError"))
    /\ UNCHANGED <<env, database, lastCall, data, split>>

Histogram ==
    /\ pc = 7
    /\ Finish(7, HistogramStmts, Outcome(HistogramStmts, ns, 0, ""))
    /\ UNCHANGED <<env, database, lastCall, data, split>>

DefineLoadImgNorm ==
    /\ pc = 8
    /\ Finish(8, DefineStmts, Outcome(DefineStmts, ns, 0, ""))
    /\ UNCHANGED <<env, database, lastCall, data, split>>

NormalizedHistogram ==
    /\ pc = 9
    /\ LET o == Outcome(NormalizedHistogramStmts, ns,
                        KeyErrorAt(database, 2), "KeyError")
           made == {k \in 1..4 : Ran(o, 2 * k)}
           last == CHOOSE k \in made : \A j \in made : j <= k
       IN  /\ Finish(9, NormalizedHistogramStmts, o)
           /\ lastCall' = IF made = {} THEN lastCall
                          ELSE CallRecord(DatabaseAt(database, IDX, HistColumns[last]),
                                          DefaultThreshold, o.ns)
    /\ UNCHANGED <<env, database, data, split>>

(* The function tried by hand, once, right after its definition, on an     *)
(* image of the database, with a threshold of the caller's choice.         *)
CallLoadImgNorm ==
    /\ pc = 9
    /\ lastCall = NoValue
    /\ "load_img_norm" \in ns
    /\ database.kind = "frame"
    /\ \E i \in DOMAIN database.rows, c \in Range(HistColumns), t \in 0..MaxThreshold :
          lastCall' = CallRecord(database.rows[i][c], t, ns)
    /\ UNCHANGED <<env, pc, ns, errors, unbound, database, data, split>>

ExtractFeatures ==
    /\ pc = 10
    /\ Finish(10, ExtractStmts, Outcome(ExtractStmts, ns, 0, ""))
    /\ UNCHANGED <<env, database, lastCall, data, split>>

(* --------------------------- the csv table ---------------------------- *)

(* The columns of data/radiomics.csv: three identification columns, then   *)
(* the radiomics features.                                                 *)
CsvColumns == <<"patient", "sequence", "label", "f1", "f2">>

SequenceNames == {"t1", "t1ce"}

LabelNames == {"HGG", "LGG"}

(* Python values of the label column: a str or an int.                     *)
PyStr(x) == [t |-> "str", s |-> x, i |-> 0]

PyInt(n) == [t |-> "int", s |-> "", i |-> n]

(* A float: sum / n, or NaN.                                               *)
Float(sum, n) == [nan |-> FALSE, sum |-> sum, n |-> n]

NaN == [nan |-> TRUE, sum |-> 0, n |-> 0]

RECURSIVE SumOver(_, _)
SumOver(S, col) ==
    IF S = {} THEN 0
    ELSE LET r == CHOOSE x \in S : TRUE IN r[col] + SumOver(S \ {r}, col)

(* aggfunc = 'mean', the default of pivot_table.                           *)
Mean(group, col) == Float(SumOver(group, col), Cardinality(group))

StrLess(a, b) == a = "HGG" /\ b = "LGG"

IndexLess(a, b) == a[1] < b[1] \/ (a[1] = b[1] /\ StrLess(a[2], b[2]))

RECURSIVE SortIndex(_)
SortIndex(S) ==
    IF S = {} THEN <<>>
    ELSE LET m == CHOOSE x \in S : \A y \in S : y = x \/ IndexLess(x, y)
         IN  <<m>> \o SortIndex(S \ {m})

(* data.columns[3:]                                                        *)
ValueColumns(columns) == SubSeq(columns, 4, Len(columns))

(* data.pivot_table(index=['patient', 'label'], columns=['sequence'],      *)
(* values=...): one row per (patient, label) present, in sorted order; one *)
(* column per (value column, sequence present); the mean of the rows of    *)
(* the group, NaN where the group is empty.                                *)
pivot_table(rows, values) ==
    LET index == SortIndex({<<r.patient, r.label>> : r \in rows})
        columns == {<<v, r.sequence>> : v \in Range(values), r \in rows}
        group(g, c) == {r \in rows : /\ r.patient = g[1] /\ r.label = g[2]
                                      /\ r.sequence = c[2]}
    IN  [index |-> index,
         columns |-> columns,
         at |-> [i \in DOMAIN index |-> [c \in columns |->
                    IF group(index[i], c) = {} THEN NaN
                    ELSE Mean(group(index[i], c), c[1])]]]

(* The two levels of the column joined sequence first.                     *)
JoinColumnSequenceFirst(col) == col[2] \o "_" \o col[1]

(* '_'.join(col).strip() for a column (value, sequence).                   *)
JoinColumn(col) == col[1] \o "_" \o col[2]

(* data.columns = [...]; data.reset_index(level=1, inplace=True): the      *)
(* frame indexed by patient, with the label as a column.                   *)
Flatten(table) ==
    [i \in DOMAIN table.index |->
        [patient |-> table.index[i][1],
         label |-> PyStr(table.index[i][2]),
         cols |-> [name \in {JoinColumn(c) : c \in table.columns} |->
                      LET c == CHOOSE c \in table.columns : JoinColumn(c) = name
                      IN  table.at[i][c]]]]

(* data.loc[data['label'] == old, 'label'] = new                           *)
Relabel(rows, old, new) ==
    [i \in DOMAIN rows |->
        IF rows[i].label = old THEN [rows[i] EXCEPT !.label = new] ELSE rows[i]]

(* The two classes encoded the other way round.                            *)
EncodeLabelsSwapped(rows) ==
    Relabel(Relabel(rows, PyStr("HGG"), PyInt(0)), PyStr("LGG"), PyInt(1))

(* Convert LGG into class 0 and HGG into class 1.                          *)
EncodeLabels(rows) == Relabel(Relabel(rows, PyStr("HGG"), PyInt(1)), PyStr("LGG"), PyInt(0))

(* display_labels of the confusion-matrix cell, in the order of classes_.  *)
DisplayLabels == <<"LGG", "HGG">>

(* ----------------------- cells 11 to 14 ------------------------------- *)

PrepareStmts == <<
    St(<<"data", "data">>, {"data"}),
    St(<<"data">>, {}),
    St(<<"data">>, {}),
    St(<<"data", "data">>, {}),
    St(<<"data", "data">>, {}),
    St(<<"display", "data">>, {}) >>

ReadCsv ==
    /\ pc = 11
    /\ LET o == Outcome(ReadCsvStmts, ns, 0, "")
       IN  /\ Finish(11, ReadCsvStmts, o)
           /\ data' = IF Ran(o, 1) THEN [kind |-> "raw", rows |-> csv] ELSE data
    /\ UNCHANGED <<env, database, lastCall, split>>

Pairplot ==
    /\ pc = 12
    /\ Finish(12, PairplotStmts, Outcome(PairplotStmts, ns, 0, ""))
    /\ UNCHANGED <<env, database, lastCall, data, split>>

Heatmap ==
    /\ pc = 13
    /\ Finish(13, HeatmapStmts, Outcome(HeatmapStmts, ns, 0, ""))
    /\ UNCHANGED <<env, database, lastCall, data, split>>

PrepareData ==
    /\ pc = 14
    /\ LET o == Outcome(PrepareStmts, ns, 0, "")
       IN  /\ Finish(14, PrepareStmts, o)
           /\ data' = IF Ran(o, 5)
                      THEN [kind |-> "pivot",
                            rows |-> EncodeLabels(Flatten(
                                pivot_table(data.rows, ValueColumns(CsvColumns))))]
                      ELSE data
    /\ UNCHANGED <<env, database, lastCall, split>>

(* ------------------------------ cell 15 ------------------------------- *)

SplitStmts == <<
    St(<<>>, {"train_test_split"}),
    St(<<"data", "data", "int">>, {"x_data", "y_data"}),
    St(<<"train_test_split", "x_data", "y_data", "y_data">>,
       {"x_train", "x_test", "y_train", "y_test"}),
    St(<<"print", "x_train">>, {}),
    St(<<"print", "x_test">>, {}),
    St(<<"print", "y_train">>, {}),
    St(<<"print", "y_test">>, {}) >>

(* test_size = 0.3                                                         *)
TestSizeNum == 3
TestSizeDen == 10

(* data.drop(columns='label')                                              *)
drop_label(rows) ==
    [i \in DOMAIN rows |-> [patient |-> rows[i].patient, cols |-> rows[i].cols]]

(* data['label'].astype(int) succeeds when every label is an int already.  *)
AllInt(rows) == \A i \in DOMAIN rows : rows[i].label.t = "int"

label_array(rows) == [i \in DOMAIN rows |-> rows[i].label.i]

RECURSIVE SumF(_, _)
SumF(f, S) ==
    IF S = {} THEN 0
    ELSE LET c == CHOOSE x \in S : TRUE IN f[c] + SumF(f, S \ {c})

(* sklearn's _approximate_mode: n_draws spread over the classes in         *)
(* proportion to their counts, the draws left after flooring going to the  *)
(* largest remainders, ties broken at random.                              *)
ApproximateMode(counts, n_draws) ==
    LET classes == DOMAIN counts
        total == SumF(counts, classes)
        floored == [c \in classes |-> (counts[c] * n_draws) \div total]
        remainder == [c \in classes |-> (counts[c] * n_draws) % total]
        need == n_draws - SumF(floored, classes)
    IN  {[c \in classes |-> floored[c] + (IF c \in A THEN 1 ELSE 0)] :
            A \in {B \in SUBSET classes :
                      /\ Cardinality(B) = need
                      /\ \A a \in B, b \in classes \ B : remainder[a] >= remainder[b]}}

RECURSIVE Perms(_)
Perms(S) ==
    IF S = {} THEN {<<>>}
    ELSE UNION {{<<x>> \o q : q \in Perms(S \ {x})} : x \in S}

CountIn(S, y, c) == Cardinality({i \in S : y[i] = c})

(* _safe_indexing(a, indices)                                              *)
Take(a, indices) == [k \in DOMAIN indices |-> a[indices[k]]]

(* The labels cut in their original order instead of taken by index.       *)
SplitResultLabelsInOrder(x, y, train, test) ==
    [kind |-> "split",
     x_train |-> Take(x, train), x_test |-> Take(x, test),
     y_train |-> SubSeq(y, 1, Len(train)),
     y_test |-> SubSeq(y, Len(train) + 1, Len(y))]

SplitResult(x, y, train, test) ==
    [kind |-> "split",
     x_train |-> Take(x, train), x_test |-> Take(x, test),
     y_train |-> Take(y, train), y_test |-> Take(y, test)]

(* train_test_split(x, y, test_size=0.3, random_state=123, stratify=y):    *)
(* every result a seed can give.  ValueError when a side would be empty,   *)
(* a class has fewer than 2 members or a side is smaller than the number   *)
(* of classes.                                                             *)
train_test_split(x, y) ==
    LET n == Len(x)
        n_test == (TestSizeNum * n + TestSizeDen - 1) \div TestSizeDen
        n_train == n - n_test
        classes == Range(y)
        counts == [c \in classes |-> CountIn(1..n, y, c)]
    IN  IF \/ n = 0 \/ n_train = 0
           \/ \E c \in classes : counts[c] < 2
           \/ n_train < Cardinality(classes) \/ n_test < Cardinality(classes)
        THEN {[kind |-> "ValueError"]}
        ELSE UNION {UNION {UNION {
                 {SplitResult(x, y, train, test) :
                     train \in Perms(T), test \in Perms(U)} :
                 U \in {V \in SUBSET ((1..n) \ T) :
                           \A c \in classes : CountIn(V, y, c) = t_i[c]}} :
                 T \in {V \in SUBSET (1..n) :
                           \A c \in classes : CountIn(V, y, c) = n_i[c]},
                 t_i \in ApproximateMode([c \in classes |-> counts[c] - n_i[c]], n_test)} :
                 n_i \in ApproximateMode(counts, n_train)}

SplitData ==
    /\ pc = 15
    /\ LET frame == data.kind = "pivot"
           ok == frame /\ AllInt(data.rows)
           x_data == IF frame THEN drop_label(data.rows) ELSE <<>>
           y_data == IF ok THEN label_array(data.rows) ELSE <<>>
       IN  \E r \in (IF ok THEN train_test_split(x_data, y_data)
                     ELSE {[kind |-> "ValueError"]}) :
              LET dAt == IF frame /\ ~ok THEN 2
                         ELSE IF r.kind = "ValueError" THEN 3 ELSE 0
                  o == Outcome(SplitStmts, ns, dAt, "ValueError")
              IN  /\ Finish(15, SplitStmts, o)
                  /\ split' = IF Ran(o, 3)
                              THEN [kind |-> "split", x_data |-> x_data, y_data |-> y_data,
                                    x_train |-> r.x_train, x_test |-> r.x_test,
                                    y_train |-> r.y_train, y_test |-> r.y_test]
                              ELSE IF Ran(o, 2)
                              THEN [kind |-> "xy", x_data |-> x_data, y_data |-> y_data]
                              ELSE split
    /\ UNCHANGED <<env, database, lastCall, data>>

(* ------------------------- cells 16 to 19 ----------------------------- *)

BlankStmts == << >>

PerformanceStmts == <<
    St(<<"clf", "x_train_norm", "y_train">>, {"accuracy_train"}),
    St(<<"clf", "x_train">>, {"probs"}),
    St(<<"clf", "x_test_norm", "y_test">>, {"accuracy_test"}),
    St(<<"print", "accuracy_train">>, {}),
    St(<<"print", "accuracy_test">>, {}) >>

ConfusionStmts == <<
    St(<<>>, {"confusion_matrix", "ConfusionMatrixDisplay"}),
    St(<<"clf", "x_test_norm">>, {"predictions"}),
    St(<<"confusion_matrix", "y_test", "predictions", "clf">>, {"cm"}),
    St(<<"ConfusionMatrixDisplay", "cm">>, {"disp"}),
    St(<<"disp">>, {}),
    St(<<"plt">>, {}), St(<<"plt">>, {}), St(<<"plt">>, {}) >>

ExercisePreprocess ==
    /\ pc = 16
    /\ Finish(16, BlankStmts, Outcome(BlankStmts, ns, 0, ""))
    /\ UNCHANGED <<env, database, lastCall, data, split>>

ExerciseTrain ==
    /\ pc = 17
    /\ Finish(17, BlankStmts, Outcome(BlankStmts, ns, 0, ""))
    /\ UNCHANGED <<env, database, lastCall, data, split>>

Performance ==
    /\ pc = 18
    /\ Finish(18, PerformanceStmts, Outcome(PerformanceStmts, ns, 0, ""))
    /\ UNCHANGED <<env, database, lastCall, data, split>>

ConfusionMatrix ==
    /\ pc = 19
    /\ Finish(19, ConfusionStmts, Outcome(ConfusionStmts, ns, 0, ""))
    /\ UNCHANGED <<env, database, lastCall, data, split>>

(* --------------------------- specifications --------------------------- *)

Files(patients) == [patient : patients, mod : Modalities]

(* The dataset as downloaded: every patient directory complete, and more   *)
(* than IDX patients.                                                      *)
FullDataset == Files(1..(IDX + 1))

Volumes == [1..NVox -> 0..MaxVal]

DefaultVol == [i \in 1..NVox |-> i % (MaxVal + 1)]

SeqRank == [s \in SequenceNames |-> IF s = "t1" THEN 1 ELSE 2]

(* The row of a patient and sequence: its feature values differ from those *)
(* of every other row and column.                                          *)
Row(p, s, l) ==
    [patient |-> p, sequence |-> s, label |-> l,
     f1 |-> 100 * p + 10 * SeqRank[s] + 1, f2 |-> 100 * p + 10 * SeqRank[s] + 2]

(* The tables with at most one row per patient and sequence.               *)
Tables(patients) ==
    {{Row(k[1], k[2], lab[k]) : k \in {j \in patients \X SequenceNames : lab[j] # "absent"}} :
        lab \in [patients \X SequenceNames -> LabelNames \cup {"absent"}]} \ {{}}

(* The tables with a row for every patient and sequence and one label per  *)
(* patient.                                                                *)
CompleteTables(patients) ==
    {{Row(k[1], k[2], lab[k[1]]) : k \in patients \X SequenceNames} :
        lab \in [patients -> LabelNames]}

DefaultCsv == {Row(1, "t1", "HGG"), Row(1, "t1ce", "HGG"),
               Row(2, "t1", "HGG"), Row(2, "t1ce", "HGG")}

Start ==
    /\ pc = 1
    /\ ns = {}
    /\ errors = <<>>
    /\ unbound = {}
    /\ database = NoValue
    /\ lastCall = NoValue
    /\ data = NoValue
    /\ split = NoValue

Init == fs = FullDataset /\ vol \in Volumes /\ csv = DefaultCsv /\ Start

(* NPatients patient directories, each with any of its five files.        *)
InitIndex ==
    fs \in SUBSET Files(1..NPatients) /\ vol = DefaultVol /\ csv = DefaultCsv /\ Start

InitPivot ==
    fs = FullDataset /\ vol = DefaultVol /\ csv \in Tables(1..NTablePatients) /\ Start

InitSplit ==
    fs = FullDataset /\ vol = DefaultVol /\ csv \in CompleteTables(1..NSplitPatients)
    /\ Start

Next ==
    \/ Setup
    \/ BuildDatabase
    \/ LoadImage
    \/ ShowSlice
    \/ ShowSlices
    \/ LoadModalities
    \/ Histogram
    \/ DefineLoadImgNorm
    \/ NormalizedHistogram
    \/ CallLoadImgNorm
    \/ ExtractFeatures
    \/ ReadCsv
    \/ Pairplot
    \/ Heatmap
    \/ PrepareData
    \/ SplitData
    \/ ExercisePreprocess
    \/ ExerciseTrain
    \/ Performance
    \/ ConfusionMatrix

Spec == Init /\ [][Next]_vars

SpecIndex == InitIndex /\ [][Next]_vars

SpecPivot == InitPivot /\ [][Next]_vars

SpecSplit == InitSplit /\ [][Next]_vars

(* ---------------------------- properties ------------------------------ *)

BuildRan == pc > 2

BuildFailed ==
    /\ database.kind = "unbound"
    /\ \E k \in DOMAIN errors : errors[k].cell = 2 /\ errors[k].exc = "ValueError"

(* Every patient that has a file has all five.                             *)
CompleteDataset ==
    \A f \in fs : \A m \in Modalities : [patient |-> f.patient, mod |-> m] \in fs

RowAligned(row) ==
    \E p \in {f.patient : f \in fs} :
        \A c \in Columns : row[c] = [patient |-> p, mod |-> ColumnSuffix[c]]

EqualLengths ==
    \A m, n \in Modalities :
        Cardinality(glob(fs, m)) = Cardinality(glob(fs, n))

(* C8, as stated: every row of the dataset index holds the five paths of   *)
(* one patient when every patient directory is complete, and building the  *)
(* index fails whenever some patient lacks one of the files.               *)
C8_AlignedOrFails ==
    BuildRan =>
        /\ CompleteDataset =>
              /\ database.kind = "frame"
              /\ \A i \in DOMAIN database.rows : RowAligned(database.rows[i])
        /\ ~CompleteDataset => BuildFailed

(* C8, amended: rows are aligned when every patient directory is complete; *)
(* with files missing, building the index fails exactly when the five      *)
(* lists differ in length, and otherwise it succeeds with a row that       *)
(* mixes the paths of different patients.                                  *)
C8_AlignedOrFailsByLength ==
    BuildRan =>
        /\ CompleteDataset =>
              /\ database.kind = "frame"
              /\ \A i \in DOMAIN database.rows : RowAligned(database.rows[i])
              /\ \A p \in {f.patient : f \in fs} :
                    \E i \in DOMAIN database.rows : database.rows[i]["T1"].patient = p
        /\ ~EqualLengths => BuildFailed
        /\ (~CompleteDataset /\ EqualLengths) =>
              /\ database.kind = "frame"
              /\ \E i \in DOMAIN database.rows : ~RowAligned(database.rows[i])

C8_MisalignedIndexBuilt ==
    /\ BuildRan
    /\ ~CompleteDataset
    /\ database.kind = "frame"
    /\ \E i \in DOMAIN database.rows : ~RowAligned(database.rows[i])

(* The names the exercises are meant to supply.                            *)
ExerciseNames ==
    {"normalized_sitk", "normalized_np", "result", "x_train_norm", "x_test_norm", "clf"}

(* C7: run top to bottom as shipped, a cell reads no name that is unbound  *)
(* except the six the exercises supply, all six are read unbound by the    *)
(* end, and the first cell to fail is the normalized-histogram cell, at    *)
(* the call of load_img_norm.                                              *)
C7_OnlyExerciseNamesUnbound ==
    /\ unbound \subseteq ExerciseNames
    /\ pc = Done => unbound = ExerciseNames
    /\ pc <= 9 => errors = <<>>
    /\ pc > 9 =>
          /\ errors # <<>>
          /\ errors[1] = [cell |-> 9, exc |-> "NameError", name |-> "normalized_sitk"]
    /\ \A k \in DOMAIN errors :
          errors[k].exc = "NameError" /\ errors[k].name \in ExerciseNames

C7_RunToEnd == pc = Done /\ Len(errors) = 4

(* What the exercise text asks of load_img_norm, for a flattened volume v: *)
(* the voxels above the threshold, their number n, sum s and sum of        *)
(* squares q give mu = s / n and sigma = sqrt(n q - s s) / n, so a voxel x *)
(* is rescaled to (n x - s) / sqrt(n q - s s).                             *)
Above(v, t) == {i \in DOMAIN v : v[i] > t}

RECURSIVE SumV(_, _)
SumV(v, S) ==
    IF S = {} THEN 0
    ELSE LET i == CHOOSE x \in S : TRUE IN v[i] + SumV(v, S \ {i})

SumSq(v, S) == SumV([i \in DOMAIN v |-> v[i] * v[i]], S)

Spread(v, t) ==
    Cardinality(Above(v, t)) * SumSq(v, Above(v, t))
        - SumV(v, Above(v, t)) * SumV(v, Above(v, t))

ZScore(v, t) ==
    [i \in DOMAIN v |->
        [num |-> Cardinality(Above(v, t)) * v[i] - SumV(v, Above(v, t)),
         den2 |-> Spread(v, t)]]

(* No voxel above the threshold, or all of them equal: sigma undefined or  *)
(* zero.                                                                   *)
Degenerate(v, t) == Above(v, t) = {} \/ Spread(v, t) = 0

Called == lastCall.kind = "call"

(* C1: a call of load_img_norm takes mean and standard deviation over the  *)
(* voxels strictly above the threshold and returns every voxel of the      *)
(* volume rescaled by them.                                                *)
C1_RescalesByMaskedMoments ==
    (Called /\ ~Degenerate(vol, lastCall.threshold)) =>
        /\ lastCall.result.kind = "return"
        /\ lastCall.result.value[2] = ZScore(vol, lastCall.threshold)

(* C2: a call of load_img_norm fails, with a division by zero, exactly     *)
(* when no voxel is above the threshold or all those voxels are equal, and *)
(* returns a volume otherwise.                                             *)
C2_FailsOnlyWhenDegenerate ==
    Called =>
        IF Degenerate(vol, lastCall.threshold)
        THEN /\ lastCall.result.kind = "raise"
             /\ lastCall.result.exc = "ZeroDivisionError"
        ELSE lastCall.result.kind = "return"

(* C3: the histogram cell's call load_img_norm(path), with the default     *)
(* threshold, returns a pair (image, array) of the same normalized voxels, *)
(* as many as the loaded image has.                                        *)
C3_ReturnsImageAndArray ==
    (Called /\ lastCall.threshold = DefaultThreshold) =>
        /\ lastCall.result.kind = "return"
        /\ Len(lastCall.result.value) = 2
        /\ lastCall.result.value[1] = [image |-> lastCall.result.value[2]]
        /\ DOMAIN lastCall.result.value[2] = DOMAIN vol

Prepared == data.kind = "pivot"

CsvPatients == {r.patient : r \in csv}

CsvSequences == {r.sequence : r \in csv}

(* The fourth column onwards.                                              *)
FeatureColumns == {CsvColumns[k] : k \in 4..Len(CsvColumns)}

ColumnName(f, s) == f \o "_" \o s

LabelCode(l) == IF l = "LGG" THEN PyInt(0) ELSE PyInt(1)

RowsOf(p) == {i \in DOMAIN data.rows : data.rows[i].patient = p}

ConsistentLabels == \A r, q \in csv : r.patient = q.patient => r.label = q.label

HoldsFeatures(row, rows) ==
    /\ DOMAIN row.cols = {ColumnName(f, s) : f \in FeatureColumns, s \in CsvSequences}
    /\ \A f \in FeatureColumns, s \in CsvSequences :
          IF \E r \in rows : r.sequence = s
          THEN \A r \in rows : r.sequence = s => row.cols[ColumnName(f, s)] = Float(r[f], 1)
          ELSE row.cols[ColumnName(f, s)] = NaN

ClassOrder == <<0, 1>>

DisplayedAs(class) == DisplayLabels[CHOOSE k \in DOMAIN ClassOrder : ClassOrder[k] = class]

(* C5: after the data preparation every label is 0 or 1, 0 for the LGG     *)
(* and 1 for the HGG rows of the csv, y_data holds those integers, and the *)
(* confusion matrix displays each class under the name it encodes.         *)
C5_LabelsEncodedAsDisplayed ==
    /\ Prepared =>
          /\ \A i \in DOMAIN data.rows :
                /\ data.rows[i].label \in {PyInt(0), PyInt(1)}
                /\ \E r \in csv : /\ r.patient = data.rows[i].patient
                                  /\ r.label = DisplayedAs(data.rows[i].label.i)
          /\ \A r \in csv : \E i \in RowsOf(r.patient) :
                data.rows[i].label = PyInt(IF r.label = "LGG" THEN 0 ELSE 1)
    /\ split.kind \in {"xy", "split"} =>
          /\ Len(split.y_data) = Len(data.rows)
          /\ \A i \in DOMAIN data.rows : split.y_data[i] = data.rows[i].label.i

C5_BothClassesEncoded ==
    /\ split.kind \in {"xy", "split"}
    /\ \E i, j \in DOMAIN data.rows :
          data.rows[i].label = PyInt(0) /\ data.rows[j].label = PyInt(1)

Occurrences(seq, x) == Cardinality({k \in DOMAIN seq : seq[k] = x})

(* C6: the split puts 30% of the rows, rounded up, in the test set and the *)
(* rest in the training set; every row of x_data is in exactly one of the  *)
(* two, once; and y_train, y_test hold, position by position, the label of *)
(* the patient of x_train, x_test.                                         *)
C6_SplitPartitionsAligned ==
    split.kind = "split" =>
        LET n == Len(split.x_data)
            own(x, y) == \A k \in DOMAIN x :
                            \E i \in DOMAIN data.rows :
                                /\ data.rows[i].patient = x[k].patient
                                /\ data.rows[i].cols = x[k].cols
                                /\ data.rows[i].label.i = y[k]
        IN  /\ 10 * Len(split.x_test) >= 3 * n
            /\ 10 * (Len(split.x_test) - 1) < 3 * n
            /\ Len(split.x_train) = n - Len(split.x_test)
            /\ \A i \in DOMAIN split.x_data :
                  Occurrences(split.x_train, split.x_data[i])
                      + Occurrences(split.x_test, split.x_data[i]) = 1
            /\ DOMAIN split.y_train = DOMAIN split.x_train
            /\ DOMAIN split.y_test = DOMAIN split.x_test
            /\ own(split.x_train, split.y_train)
            /\ own(split.x_test, split.y_test)

C6_BothClassesSplit ==
    /\ split.kind = "split"
    /\ Len(split.x_test) >= 2
    /\ \E j, k \in DOMAIN split.y_train : split.y_train[j] # split.y_train[k]
    /\ \E j, k \in DOMAIN split.y_test : split.y_test[j] # split.y_test[k]

====
